---- MODULE Spec2Model ----
(***************************************************************************)
(* Model of the RAG adapter of backend/store/rag: the RAGService factory   *)
(* (rag.go) and the CTRAG adapter (ct.go).  The adapter keeps no mutable   *)
(* state of its own; what is observable of one invocation is the sequence  *)
(* of calls it makes to its collaborators (the Markdown converter and the  *)
(* raglite backend client) and the values it returns.  The state of the    *)
(* model is therefore the service handle built by the factory plus the     *)
(* record of the latest invocation: its operation, its request, the calls  *)
(* it issued, in order, and its return values.                             *)
(*                                                                         *)
(* The backend, the converter and the uuid generator are external: their   *)
(* outcomes (an error, a response) are chosen nondeterministically by the  *)
(* actions.  ExtraParameters (model.Parameters.Map()) and the logger are   *)
(* left out: no modelled request field or return value depends on them.    *)
(***************************************************************************)
EXTENDS Integers, Sequences, FiniteSets, TLC

\* ------------------------------------------------------------- bounds
MaxHistory == 3
MaxGroupIDs == 2
MaxTags == 1
MaxDocIDs == 1

\* ------------------------------------------------------ Go data values
\* A Go slice is nil or a (possibly zero-length) list; len() of both is 0.
NilSlice == [isNil |-> TRUE, elems |-> <<>>]

MkSlice(s) == [isNil |-> FALSE, elems |-> s]

SliceLen(sl) == Len(sl.elems)

SeqsUpTo(S, n) == UNION {[1..k -> S] : k \in 0..n}

Slices(S, n) == {NilSlice} \cup {MkSlice(s) : s \in SeqsUpTo(S, n)}

\* A Go map[string]interface{}: a function on the set of its keys.
EmptyMap == [k \in {} |-> NilSlice]

MapSet(m, key, v) == [k \in (DOMAIN m) \cup {key} |-> IF k = key THEN v ELSE m[k]]

\* A Go error: the nil error, or a message (a list of its parts, in order)
\* with the error it wraps through %w, if any.
NoErr == [isNil |-> TRUE, msg |-> <<>>, wraps |-> <<>>]

NewError(m) == [isNil |-> FALSE, msg |-> <<m>>, wraps |-> <<>>]

\* fmt.Errorf(prefix + "%s", s): the text is formatted in, nothing is wrapped.
ErrorfS(prefix, s) == [isNil |-> FALSE, msg |-> <<prefix, s>>, wraps |-> <<>>]

\* fmt.Errorf(prefix + "%w", cause): the cause's text is appended and the
\* cause is kept for errors.Unwrap.
ErrorfW(prefix, cause) == [isNil |-> FALSE, msg |-> <<prefix>> \o cause.msg, wraps |-> <<cause>>]

\* errors.Is(e, target): target is e or is on e's chain of wrapped errors.
RECURSIVE ErrorsIs(_, _)
ErrorsIs(e, target) ==
    \/ e = target
    \/ /\ Len(e.wraps) > 0
       /\ ErrorsIs(e.wraps[1], target)

\* ------------------------------------------------- input value domains
DatasetIDs == {"ds1", "ds2"}
RecordIDs == {"doc1", "doc2"}
DocIDValues == {"", "d1"}
BackendIDs == {"b1", "b2"}
GroupIDValues == {1, 2}
TagValues == {"t1"}
Queries == {"x", "y"}
Thresholds == {0, 5}
UUIDs == {"u1", "u2"}
Providers == {"ct", "", "CT", "milvus"}

\* eino schema roles
RoleUser == "user"
RoleAssistant == "assistant"
RoleSystem == "system"
RoleTool == "tool"

Messages ==
    { [Role |-> RoleUser, Content |-> "a"],
      [Role |-> RoleAssistant, Content |-> "b"],
      [Role |-> RoleSystem, Content |-> "c"],
      [Role |-> RoleTool, Content |-> "a"] }

\* Errors the backend client can return, a cancelled context included.
BackendErrors == {NewError("backend unavailable"), NewError("context canceled")}

BackendOutcomes == {NoErr} \cup BackendErrors

ConvertErrors == {NewError("render failed")}

ClientErrors == {NewError("invalid base url")}

VARIABLES
    selector,     \* config.RAG.Provider the factory was called with
    service,      \* the RAGService the factory returned ("unbuilt" before the call)
    factoryErr,   \* the error the factory returned
    clientBuilt,  \* whether a raglite client exists
    op,           \* the adapter method being run ("none" between invocations)
    req,          \* its arguments
    trace,        \* the calls it made to the converter and the backend, in order
    ret           \* its return values

vars == <<selector, service, factoryErr, clientBuilt, op, req, trace, ret>>

NoReq == [none |-> TRUE]

NoRet == [val |-> "", err |-> NoErr]

\* ------------------------------------------------------- rag.go factory
\* The result of NewCTRAG: the adapter, or a nil *CTRAG with the wrapped error.
NewCTRAG(clientErr) ==
    IF ~clientErr.isNil
    THEN [err |-> ErrorfW("failed to create raglite client: ", clientErr), svc |-> "nilCTRAG",
          client |-> FALSE]
    ELSE [err |-> NoErr, svc |-> "CTRAG", client |-> TRUE]

\* client: whether a raglite client was constructed.
NewRAGServiceAnyProvider(provider, clientErr) == NewCTRAG(clientErr)

NewRAGServiceRun(provider, clientErr) ==
    IF provider = "ct"
    THEN NewCTRAG(clientErr)
    ELSE [err |-> ErrorfS("unsupported vector provider: ", provider), svc |-> "nil",
          client |-> FALSE]

\* ------------------------------------------------ calls to collaborators
\* What a call gave back: its result (the zero value beside an error) and its error.
Reply(val, err) == IF err.isNil THEN [val |-> val, err |-> NoErr] ELSE [val |-> "", err |-> err]

BackendCall(method, data, val, err) ==
    [kind |-> "backend", api |-> method, arg |-> data, reply |-> Reply(val, err)]

\* ----------------------------------------------------------- HTML helper
HTMLTags == {"<p>", "</p>"}

Contents == { <<"hi">>, <<"<p>", "hi", "</p>">>, <<"<p>", "hi">> }

\* utils.IsLikelyHTML: content sniffing for markup.
IsLikelyHTML(content) == \E i \in 1..Len(content) : content[i] \in HTMLTags

IsTextToken(t) == t \notin HTMLTags

\* mdConv.ConvertString on success: the markup is rendered away.
ConvertString(content) == SelectSeq(content, IsTextToken)

ConvertCall(content, convErr) ==
    [ kind |-> "convert", api |-> "mdConv.ConvertString", arg |-> content,
      reply |-> Reply(ConvertString(content), convErr) ]

\* fmt.Sprintf("%s.md", id)
FilenameOf(id) == <<id, ".md">>

\* ------------------------------------------------- CreateKnowledgeBase
CreateDatasetRequest(name) == [Name |-> name]

CreateKnowledgeBaseRun(name, err, datasetID) ==
    [ trace |-> <<BackendCall("Datasets.Create", CreateDatasetRequest(name), datasetID, err)>>,
      ret |-> IF ~err.isNil THEN [val |-> "", err |-> err]
              ELSE [val |-> datasetID, err |-> NoErr] ]

\* -------------------------------------------------------- QueryRecords
ChatMessage(msg) == [Role |-> msg.Role, Content |-> msg.Content]

RECURSIVE ChatMsgsKeepSystem(_)
ChatMsgsKeepSystem(history) ==
    IF history = <<>> THEN <<>>
    ELSE LET msg == Head(history) IN
         (IF msg.Role \in {RoleUser, RoleAssistant, RoleSystem}
          THEN <<ChatMessage(msg)>> ELSE <<>>) \o ChatMsgsKeepSystem(Tail(history))

\* The loop over req.HistoryMsgs: the messages appended to chatMsgs, in order.
RECURSIVE ChatMsgs(_)
ChatMsgs(history) ==
    IF history = <<>> THEN <<>>
    ELSE LET msg == Head(history) IN
         (IF msg.Role = RoleUser THEN <<ChatMessage(msg)>>
          ELSE IF msg.Role = RoleAssistant THEN <<ChatMessage(msg)>>
          ELSE <<>>) \o ChatMsgs(Tail(history))

\* var chatMsgs []raglite.ChatMessage stays nil until the first append.
ChatHistoryOf(history) ==
    IF ChatMsgs(history) = <<>> THEN NilSlice ELSE MkSlice(ChatMsgs(history))

RetrieveTopK == 10

RetrieveRequestAlwaysGroupIDs(r) ==
    [ DatasetID |-> r.DatasetID,
      Query |-> r.Query,
      TopK |-> RetrieveTopK,
      Metadata |-> MapSet(EmptyMap, "group_ids", r.GroupIDs),
      Tags |-> IF SliceLen(r.Tags) > 0 THEN r.Tags ELSE MkSlice(<<>>),
      SimilarityThreshold |-> r.SimilarityThreshold,
      ChatHistory |-> ChatHistoryOf(r.HistoryMsgs) ]

RetrieveRequest(r) ==
    [ DatasetID |-> r.DatasetID,
      Query |-> r.Query,
      TopK |-> RetrieveTopK,
      Metadata |-> IF SliceLen(r.GroupIDs) > 0
                   THEN MapSet(EmptyMap, "group_ids", r.GroupIDs) ELSE EmptyMap,
      Tags |-> IF SliceLen(r.Tags) > 0 THEN r.Tags ELSE MkSlice(<<>>),
      SimilarityThreshold |-> r.SimilarityThreshold,
      ChatHistory |-> ChatHistoryOf(r.HistoryMsgs) ]

NodeContentChunk(chunk) ==
    [Content |-> chunk.Content, ID |-> chunk.ChunkID, DocID |-> chunk.DocumentID]

NodeChunks(results) == [i \in 1..Len(results) |-> NodeContentChunk(results[i])]

QueryRecordsRun(r, err, res) ==
    [ trace |-> <<BackendCall("Search.Retrieve", RetrieveRequest(r), res, err)>>,
      ret |-> IF ~err.isNil
              THEN [val |-> [query |-> "", chunks |-> <<>>], err |-> err]
              ELSE [val |-> [query |-> res.Query, chunks |-> NodeChunks(res.Results)],
                    err |-> NoErr] ]

\* ------------------------------------------------------- UpsertRecords
UploadDocumentRequestAlwaysTags(r, markdown) ==
    [ DatasetID |-> r.DatasetID,
      Metadata |-> IF SliceLen(r.GroupIDs) > 0
                   THEN MapSet(EmptyMap, "group_ids", r.GroupIDs) ELSE EmptyMap,
      Tags |-> r.Tags,
      DocumentID |-> r.DocID,
      File |-> markdown,
      Filename |-> FilenameOf(r.ID) ]

UploadDocumentRequest(r, markdown) ==
    [ DatasetID |-> r.DatasetID,
      Metadata |-> IF SliceLen(r.GroupIDs) > 0
                   THEN MapSet(EmptyMap, "group_ids", r.GroupIDs) ELSE EmptyMap,
      Tags |-> IF SliceLen(r.Tags) > 0 THEN r.Tags ELSE NilSlice,
      DocumentID |-> r.DocID,
      File |-> markdown,
      Filename |-> FilenameOf(r.ID) ]

NeedsConversionAlways(content) == TRUE

\* if utils.IsLikelyHTML(req.Content)
NeedsConversion(content) == IsLikelyHTML(content)

ConversionFailedIgnored(convErr) == FALSE

\* if err != nil after ConvertString
ConversionFailed(convErr) == ~convErr.isNil

UpsertRecordsRun(r, convErr, err, documentID) ==
    LET convert == NeedsConversion(r.Content)
        converted == IF convert THEN <<ConvertCall(r.Content, convErr)>> ELSE <<>>
        markdown == IF convert THEN converted[1].reply.val ELSE r.Content
    IN  IF convert /\ ConversionFailed(convErr)
        THEN [ trace |-> converted,
               ret |-> [val |-> "",
                        err |-> ErrorfW("convert html to markdown failed: ", convErr)] ]
        ELSE [ trace |-> converted \o
                         <<BackendCall("Documents.Upload", UploadDocumentRequest(r, markdown),
                                       documentID, err)>>,
               ret |-> IF ~err.isNil
                       THEN [val |-> "",
                             err |-> ErrorfW("upload document text failed: ", err)]
                       ELSE [val |-> documentID, err |-> NoErr] ]

\* ------------------------------------- DeleteRecords, DeleteKnowledgeBase
BatchDeleteDocumentsRequest(datasetID, docIDs) ==
    [DatasetID |-> datasetID, DocumentIDs |-> docIDs]

DeleteRecordsSkipEmpty(datasetID, docIDs, err) ==
    IF SliceLen(docIDs) = 0
    THEN [trace |-> <<>>, ret |-> [val |-> "", err |-> NoErr]]
    ELSE [ trace |-> <<BackendCall("Documents.BatchDelete",
                                   BatchDeleteDocumentsRequest(datasetID, docIDs), "", err)>>,
           ret |-> [val |-> "", err |-> err] ]

DeleteRecordsRun(datasetID, docIDs, err) ==
    [ trace |-> <<BackendCall("Documents.BatchDelete",
                              BatchDeleteDocumentsRequest(datasetID, docIDs), "", err)>>,
      ret |-> [val |-> "", err |-> IF ~err.isNil THEN err ELSE NoErr] ]

DeleteKnowledgeBaseRetry(datasetID, err) ==
    [ trace |-> IF ~err.isNil
                THEN <<BackendCall("Datasets.Delete", datasetID, "", err),
                       BackendCall("Datasets.Delete", datasetID, "", err)>>
                ELSE <<BackendCall("Datasets.Delete", datasetID, "", err)>>,
      ret |-> [val |-> "", err |-> IF ~err.isNil THEN err ELSE NoErr] ]

DeleteKnowledgeBaseRun(datasetID, err) ==
    [ trace |-> <<BackendCall("Datasets.Delete", datasetID, "", err)>>,
      ret |-> [val |-> "", err |-> IF ~err.isNil THEN err ELSE NoErr] ]

\* --------------------------------------------------------------- models
ModelTokens == {0, 1, 4096, 8192}

DomainModels ==
    [ ID : {"", "m1"}, Model : {"gpt"}, Provider : {"openai"}, Type : {"chat", "embedding"},
      BaseURL : {"http://llm"}, APIKey : {"k"}, IsActive : BOOLEAN,
      Parameters : [MaxTokens : ModelTokens] ]

AddModelMaxTokens == 8192

DefaultMaxTokens == 8192

AIModelConfig(model, maxTokens) ==
    [APIKey |-> model.APIKey, MaxTokens |-> maxTokens, APIBase |-> model.BaseURL]

CreateModelRequestCallerTokens(model) ==
    [ Name |-> model.Model, Provider |-> model.Provider, ModelType |-> model.Type,
      Config |-> AIModelConfig(model, model.Parameters.MaxTokens),
      IsDefault |-> model.IsActive ]

CreateModelRequest(model) ==
    [ Name |-> model.Model, Provider |-> model.Provider, ModelType |-> model.Type,
      Config |-> AIModelConfig(model, AddModelMaxTokens),
      IsDefault |-> model.IsActive ]

AddModelRun(model, err, modelID) ==
    [ trace |-> <<BackendCall("Models.Create", CreateModelRequest(model), modelID, err)>>,
      ret |-> IF ~err.isNil THEN [val |-> "", err |-> err]
              ELSE [val |-> modelID, err |-> NoErr] ]

UpsertModelRequest(model) ==
    LET maxTokens == IF model.Parameters.MaxTokens = 0 THEN DefaultMaxTokens
                     ELSE model.Parameters.MaxTokens
    IN  [ Name |-> model.Model, Provider |-> model.Provider, ModelType |-> model.Type,
          Config |-> AIModelConfig(model, maxTokens),
          IsDefault |-> model.IsActive,
          ModelName |-> model.Model ]

UpsertModelRun(model, err) ==
    [ trace |-> <<BackendCall("Models.Upsert", UpsertModelRequest(model), "", err)>>,
      ret |-> [val |-> "", err |-> IF ~err.isNil THEN err ELSE NoErr] ]

DeleteModelRun(model, err) ==
    [ trace |-> <<BackendCall("Models.Delete", model.ID, "", err)>>,
      ret |-> [val |-> "", err |-> IF ~err.isNil THEN err ELSE NoErr] ]

\* The backend's model records, as Models.List returns them.
BackendModel(id, type) ==
    [ Name |-> "gpt", ID |-> id, Provider |-> "openai", ModelType |-> type,
      Config |-> [APIKey |-> "k", MaxTokens |-> 4096, APIBase |-> "http://llm"] ]

ModelLists == { <<>>, <<BackendModel("b1", "chat")>>,
                <<BackendModel("b2", "embedding"), BackendModel("b1", "chat")>> }

DomainModelOf(model) ==
    [ ID |-> model.ID, Model |-> model.Name, Type |-> model.ModelType,
      BaseURL |-> model.Config.APIBase, APIKey |-> model.Config.APIKey ]

ListModelsRequest == [all |-> TRUE]

GetModelListRun(err, models) ==
    [ trace |-> <<BackendCall("Models.List", ListModelsRequest, models, err)>>,
      ret |-> IF ~err.isNil THEN [val |-> <<>>, err |-> err]
              ELSE [val |-> [i \in 1..Len(models) |-> DomainModelOf(models[i])],
                    err |-> NoErr] ]

\* ---------------------------------------------- UpdateDocumentGroupIDs
UpdateDocumentRequestLen(datasetID, docID, groupIds) ==
    [ DatasetID |-> datasetID, Metadata |-> IF SliceLen(groupIds) > 0
                   THEN MapSet(EmptyMap, "group_ids", groupIds) ELSE EmptyMap,
      DocumentID |-> docID ]

UpdateDocumentRequest(datasetID, docID, groupIds) ==
    [ DatasetID |-> datasetID, Metadata |-> IF ~groupIds.isNil
                   THEN MapSet(EmptyMap, "group_ids", groupIds) ELSE EmptyMap,
      DocumentID |-> docID ]

UpdateDocumentGroupIDsRun(datasetID, docID, groupIds, err) ==
    [ trace |-> <<BackendCall("Documents.Update",
                              UpdateDocumentRequest(datasetID, docID, groupIds), "", err)>>,
      ret |-> [val |-> "",
               err |-> IF ~err.isNil
                       THEN ErrorfW("update document group IDs failed: ", err)
                       ELSE NoErr] ]

\* -------------------------------------------------------- ListDocuments
ListDocumentsRequest(datasetID, documentIDs) ==
    [DatasetID |-> datasetID, DocumentIDs |-> documentIDs]

\* The backend's document records, as Documents.List returns them.
BackendDocument(id, groupIDs) ==
    [ DatasetID |-> "ds1", Metadata |-> MapSet(EmptyMap, "group_ids", groupIDs), Tags |-> MkSlice(<<"t1">>), ID |-> id,
      Filename |-> FilenameOf("doc1"), Status |-> "completed",
      ProgressMsg |-> "" ]

DocumentLists == { <<>>, <<BackendDocument("d1", MkSlice(<<1, 2>>))>> }

\* raglite.Decode[DocumentMetadata]: the typed view of the metadata map.
DecodeMetadata(metadata) ==
    [GroupIDs |-> IF "group_ids" \in DOMAIN metadata THEN metadata["group_ids"] ELSE NilSlice]

DocumentOf(document) ==
    [ Name |-> document.Filename, DatasetID |-> document.DatasetID, Tags |-> document.Tags,
      ID |-> document.ID, Status |-> document.Status,
      ProgressMsg |-> document.ProgressMsg, MetaData |-> DecodeMetadata(document.Metadata) ]

ListDocumentsRun(datasetID, documentIDs, err, documents) ==
    [ trace |-> <<BackendCall("Documents.List", ListDocumentsRequest(datasetID, documentIDs),
                              documents, err)>>,
      ret |-> IF ~err.isNil THEN [val |-> <<>>, err |-> err]
              ELSE [val |-> [i \in 1..Len(documents) |-> DocumentOf(documents[i])],
                    err |-> NoErr] ]

Init ==
    /\ selector = ""
    /\ service = "unbuilt"
    /\ factoryErr = NoErr
    /\ clientBuilt = FALSE
    /\ op = "none"
    /\ req = NoReq
    /\ trace = <<>>
    /\ ret = NoRet

NewRAGService ==
    /\ service = "unbuilt"
    /\ \E provider \in Providers, clientErr \in {NoErr} \cup ClientErrors :
         LET r == NewRAGServiceRun(provider, clientErr) IN
         /\ selector' = provider
         /\ service' = r.svc
         /\ factoryErr' = r.err
         /\ clientBuilt' = r.client
    /\ UNCHANGED <<op, req, trace, ret>>

\* A caller can invoke a method once the factory has returned the adapter and
\* no other invocation is being followed.
Ready ==
    /\ service = "CTRAG"
    /\ op = "none"

\* One invocation of an adapter method by a caller holding the service: the
\* method runs to its return, leaving the calls it made and what it returned.
Invoke(name, request, run) ==
    /\ op' = name
    /\ req' = request
    /\ trace' = run.trace
    /\ ret' = run.ret
    /\ UNCHANGED <<selector, service, factoryErr, clientBuilt>>

\* The caller takes the return values; nothing of the invocation is kept by
\* the adapter (CTRAG holds only client, logger and mdConv), so the next
\* invocation starts from the same adapter state.
Return ==
    /\ op # "none"
    /\ op' = "none"
    /\ req' = NoReq
    /\ trace' = <<>>
    /\ ret' = NoRet
    /\ UNCHANGED <<selector, service, factoryErr, clientBuilt>>

CreateKnowledgeBase ==
    /\ Ready
    /\ \E name \in UUIDs, err \in BackendOutcomes, datasetID \in BackendIDs :
           Invoke("CreateKnowledgeBase", [Name |-> name],
                  CreateKnowledgeBaseRun(name, err, datasetID))

QueryRequests ==
    [ DatasetID : DatasetIDs, Query : Queries,
      GroupIDs : Slices(GroupIDValues, MaxGroupIDs), Tags : Slices(TagValues, MaxTags),
      SimilarityThreshold : Thresholds, HistoryMsgs : SeqsUpTo(Messages, MaxHistory) ]

\* The backend's retrieve responses: the echoed (possibly rewritten) query and
\* the ranked chunks.
RetrieveResponses ==
    { [Query |-> "x", Results |-> <<>>],
      [Query |-> "x rewritten",
       Results |-> << [Content |-> "two", ChunkID |-> "c2", DocumentID |-> "d1"],
                      [Content |-> "one", ChunkID |-> "c1", DocumentID |-> "d1"] >>] }

QueryRecords ==
    /\ Ready
    /\ \E r \in QueryRequests, err \in BackendOutcomes, res \in RetrieveResponses :
           Invoke("QueryRecords", r, QueryRecordsRun(r, err, res))

UpsertRequests ==
    [ Content : Contents, DatasetID : DatasetIDs, GroupIDs : Slices(GroupIDValues, MaxGroupIDs), Tags : Slices(TagValues, MaxTags),
      ID : RecordIDs, DocID : DocIDValues ]

UpsertRecords ==
    /\ Ready
    /\ \E r \in UpsertRequests, convErr \in {NoErr} \cup ConvertErrors,
          err \in BackendOutcomes, documentID \in BackendIDs :
           Invoke("UpsertRecords", r, UpsertRecordsRun(r, convErr, err, documentID))

DeleteRecords ==
    /\ Ready
    /\ \E datasetID \in DatasetIDs, docIDs \in Slices(BackendIDs, MaxDocIDs),
          err \in BackendOutcomes :
           Invoke("DeleteRecords", [DatasetID |-> datasetID, DocIDs |-> docIDs],
                  DeleteRecordsRun(datasetID, docIDs, err))

DeleteKnowledgeBase ==
    /\ Ready
    /\ \E datasetID \in DatasetIDs, err \in BackendOutcomes :
           Invoke("DeleteKnowledgeBase", [DatasetID |-> datasetID],
                  DeleteKnowledgeBaseRun(datasetID, err))

AddModel ==
    /\ Ready
    /\ \E model \in DomainModels, err \in BackendOutcomes, modelID \in BackendIDs :
           Invoke("AddModel", model, AddModelRun(model, err, modelID))

UpsertModel ==
    /\ Ready
    /\ \E model \in DomainModels, err \in BackendOutcomes :
           Invoke("UpsertModel", model, UpsertModelRun(model, err))

DeleteModel ==
    /\ Ready
    /\ \E model \in DomainModels, err \in BackendOutcomes :
           Invoke("DeleteModel", model, DeleteModelRun(model, err))

GetModelList ==
    /\ Ready
    /\ \E err \in BackendOutcomes, models \in ModelLists :
           Invoke("GetModelList", NoReq, GetModelListRun(err, models))

UpdateDocumentGroupIDs ==
    /\ Ready
    /\ \E datasetID \in DatasetIDs, docID \in DocIDValues,
          groupIds \in Slices(GroupIDValues, MaxGroupIDs), err \in BackendOutcomes :
           Invoke("UpdateDocumentGroupIDs",
                  [DatasetID |-> datasetID, GroupIDs |-> groupIds, DocID |-> docID],
                  UpdateDocumentGroupIDsRun(datasetID, docID, groupIds, err))

ListDocuments ==
    /\ Ready
    /\ \E datasetID \in DatasetIDs, documentIDs \in Slices(BackendIDs, MaxDocIDs),
          err \in BackendOutcomes, documents \in DocumentLists :
           Invoke("ListDocuments", [DatasetID |-> datasetID, DocumentIDs |-> documentIDs],
                  ListDocumentsRun(datasetID, documentIDs, err, documents))

Next ==
    \/ NewRAGService
    \/ CreateKnowledgeBase
    \/ QueryRecords
    \/ UpsertRecords
    \/ DeleteRecords
    \/ DeleteKnowledgeBase
    \/ AddModel
    \/ UpsertModel
    \/ DeleteModel
    \/ GetModelList
    \/ UpdateDocumentGroupIDs
    \/ ListDocuments
    \/ Return

Spec == Init /\ [][Next]_vars

\* ------------------------------------------------------------ the claims
IsBackendCall(e) == e.kind = "backend"

IsConvertCall(e) == e.kind = "convert"

\* The calls the followed invocation made to the backend, and to the converter.
BackendCalls == SelectSeq(trace, IsBackendCall)

ConvertCalls == SelectSeq(trace, IsConvertCall)

HasGroupIDs(data) == "group_ids" \in DOMAIN data.Metadata

\* C1, as stated: an UpsertRecords request whose GroupIDs and Tags are empty
\* (nil or zero-length), and an UpdateDocumentGroupIDs call whose groupIDs are
\* empty (nil or zero-length), hand the backend a request with no group_ids
\* metadata entry and (upsert) no Tags value.
C1_EmptyFieldsOmittedAsStated ==
    /\ (op = "UpsertRecords" /\ SliceLen(req.GroupIDs) = 0 /\ SliceLen(req.Tags) = 0)
         => \A i \in 1..Len(BackendCalls) :
                /\ ~HasGroupIDs(BackendCalls[i].arg)
                /\ BackendCalls[i].arg.Tags.isNil
    /\ (op = "UpdateDocumentGroupIDs" /\ SliceLen(req.GroupIDs) = 0)
         => \A i \in 1..Len(BackendCalls) : ~HasGroupIDs(BackendCalls[i].arg)

\* C1, amended: an UpsertRecords request whose GroupIDs and Tags are empty (nil
\* or zero-length) is uploaded with no group_ids metadata entry and no Tags
\* value; an UpdateDocumentGroupIDs call omits group_ids when groupIDs is nil,
\* and sends a non-nil zero-length list as an empty group_ids list.
C1_EmptyFieldsOmitted ==
    /\ (op = "UpsertRecords" /\ SliceLen(req.GroupIDs) = 0 /\ SliceLen(req.Tags) = 0)
         => \A i \in 1..Len(BackendCalls) :
                /\ ~HasGroupIDs(BackendCalls[i].arg)
                /\ BackendCalls[i].arg.Tags.isNil
    /\ (op = "UpdateDocumentGroupIDs" /\ SliceLen(req.GroupIDs) = 0)
         => \A i \in 1..Len(BackendCalls) :
                IF req.GroupIDs.isNil
                THEN ~HasGroupIDs(BackendCalls[i].arg)
                ELSE /\ HasGroupIDs(BackendCalls[i].arg)
                     /\ BackendCalls[i].arg.Metadata["group_ids"] = MkSlice(<<>>)

C1_Witness ==
    /\ op = "UpsertRecords"
    /\ req.GroupIDs = MkSlice(<<>>)
    /\ req.Tags = MkSlice(<<>>)
    /\ Len(BackendCalls) = 1

\* C2: the chat history QueryRecords sends is exactly the subsequence of the
\* input history whose role is user or assistant, each kept message with its
\* role and content unchanged and in the input's relative order; dropping a
\* message raises no error.
KeptIndices(history) ==
    {i \in 1..Len(history) : history[i].Role \in {RoleUser, RoleAssistant}}

IsSubsequenceAt(sent, history, f) ==
    /\ \A j \in 1..Len(sent) : \A k \in 1..Len(sent) : j < k => f[j] < f[k]
    /\ \A j \in 1..Len(sent) :
           /\ sent[j].Role = history[f[j]].Role
           /\ sent[j].Content = history[f[j]].Content

C2_HistoryFiltered ==
    op = "QueryRecords" =>
        /\ Len(BackendCalls) = 1
        /\ LET sent == BackendCalls[1].arg.ChatHistory.elems
               kept == KeptIndices(req.HistoryMsgs)
           IN  /\ Len(sent) = Cardinality(kept)
               /\ \E f \in [1..Len(sent) -> kept] :
                      IsSubsequenceAt(sent, req.HistoryMsgs, f)
        /\ ret.err = BackendCalls[1].reply.err

C2_Witness ==
    /\ op = "QueryRecords"
    /\ Len(req.HistoryMsgs) = 3
    /\ req.HistoryMsgs[1].Role = RoleAssistant
    /\ req.HistoryMsgs[2].Role = RoleSystem
    /\ req.HistoryMsgs[3].Role = RoleUser
    /\ Len(BackendCalls[1].arg.ChatHistory.elems) = 2
    /\ ret.err.isNil

\* C3: UpsertRecords invokes the converter exactly once, with the original
\* content and before the upload, when the detector classifies the content as
\* HTML, and uploads the converter's output; it never invokes the converter
\* for non-HTML content and uploads the raw content.  The filename is
\* "{id}.md" and a successful call returns the backend's document ID.
C3_ConversionBeforeUpload ==
    op = "UpsertRecords" =>
        /\ IF IsLikelyHTML(req.Content)
           THEN /\ Len(ConvertCalls) = 1
                /\ trace[1].kind = "convert"
                /\ trace[1].arg = req.Content
                /\ \A i \in 1..Len(BackendCalls) :
                       BackendCalls[i].arg.File = trace[1].reply.val
           ELSE /\ Len(ConvertCalls) = 0
                /\ Len(BackendCalls) = 1
                /\ BackendCalls[1].arg.File = req.Content
        /\ \A i \in 1..Len(BackendCalls) :
               /\ BackendCalls[i].api = "Documents.Upload"
               /\ BackendCalls[i].arg.Filename = <<req.ID, ".md">>
               /\ ret.err.isNil => ret.val = BackendCalls[i].reply.val

C3_Witness ==
    /\ op = "UpsertRecords"
    /\ req.ID = "doc1"
    /\ req.Content = <<"<p>", "hi", "</p>">>
    /\ Len(trace) = 2
    /\ trace[2].arg.File = <<"hi">>
    /\ trace[2].arg.Filename = <<"doc1", ".md">>
    /\ ret.val = "b2"

\* C4: when the conversion fails, UpsertRecords returns an empty document ID
\* with an error that wraps the conversion error, and issues no upload.
C4_ConversionFailure ==
    (op = "UpsertRecords" /\ \E i \in 1..Len(trace) :
                                 IsConvertCall(trace[i]) /\ ~trace[i].reply.err.isNil)
        => /\ ret.val = ""
           /\ ~ret.err.isNil
           /\ Len(ret.err.wraps) = 1
           /\ ret.err.wraps[1] = trace[1].reply.err
           /\ Len(BackendCalls) = 0

C4_Witness ==
    /\ op = "UpsertRecords"
    /\ Len(ConvertCalls) = 1
    /\ ~ConvertCalls[1].reply.err.isNil
    /\ ~ret.err.isNil

\* C5: AddModel sends MaxTokens = 8192 whatever the model's
\* Parameters.MaxTokens; UpsertModel sends Parameters.MaxTokens when it is
\* nonzero and 8192 when it is zero.
C5_MaxTokens ==
    /\ op = "AddModel" =>
           /\ Len(BackendCalls) = 1
           /\ BackendCalls[1].arg.Config.MaxTokens = 8192
    /\ op = "UpsertModel" =>
           /\ Len(BackendCalls) = 1
           /\ BackendCalls[1].arg.Config.MaxTokens =
                  IF req.Parameters.MaxTokens # 0 THEN req.Parameters.MaxTokens ELSE 8192

C5_Witness ==
    /\ op = "AddModel"
    /\ req.Parameters.MaxTokens = 4096
    /\ Len(BackendCalls) = 1

\* C6: the retrieve request of QueryRecords has TopK = 10, the caller's
\* DatasetID, Query and SimilarityThreshold, a group_ids metadata key exactly
\* when the request's GroupIDs is non-empty (with those GroupIDs as value), and
\* carries tags only when the request's Tags is non-empty (then those Tags).
C6_RetrieveRequest ==
    op = "QueryRecords" =>
        /\ Len(BackendCalls) = 1
        /\ LET data == BackendCalls[1].arg IN
           /\ BackendCalls[1].api = "Search.Retrieve"
           /\ data.TopK = 10
           /\ data.DatasetID = req.DatasetID
           /\ data.Query = req.Query
           /\ data.SimilarityThreshold = req.SimilarityThreshold
           /\ HasGroupIDs(data) <=> SliceLen(req.GroupIDs) > 0
           /\ HasGroupIDs(data) => data.Metadata["group_ids"] = req.GroupIDs
           /\ SliceLen(data.Tags) > 0 => SliceLen(req.Tags) > 0
           /\ SliceLen(req.Tags) > 0 => data.Tags = req.Tags

C6_Witness ==
    /\ op = "QueryRecords"
    /\ req.DatasetID = "ds1"
    /\ req.Query = "x"
    /\ req.GroupIDs = MkSlice(<<>>)
    /\ req.Tags = MkSlice(<<"t1">>)
    /\ ~HasGroupIDs(BackendCalls[1].arg)
    /\ BackendCalls[1].arg.Tags = MkSlice(<<"t1">>)

\* C7: NewRAGService with a selector other than "ct" returns a nil service and
\* an error whose message contains the selector, and constructs no client; with
\* "ct" it returns the adapter, or the client-construction failure as an error.
C7_Factory ==
    service # "unbuilt" =>
        IF selector # "ct"
        THEN /\ service = "nil"
             /\ ~factoryErr.isNil
             /\ \E i \in 1..Len(factoryErr.msg) : factoryErr.msg[i] = selector
             /\ ~clientBuilt
        ELSE \/ /\ service = "CTRAG"
                /\ factoryErr.isNil
                /\ clientBuilt
             \/ /\ service # "CTRAG"
                /\ ~factoryErr.isNil
                /\ \E e \in ClientErrors : ErrorsIs(factoryErr, e)
                /\ ~clientBuilt

C7_Witness ==
    /\ selector = "milvus"
    /\ service = "nil"
    /\ ~factoryErr.isNil

\* C8: DeleteRecords with an empty docIDs list still issues the batch-delete
\* call, with the given datasetID and the empty list, and returns the error of
\* that call.
C8_DeleteEmpty ==
    (op = "DeleteRecords" /\ SliceLen(req.DocIDs) = 0) =>
        /\ Len(BackendCalls) = 1
        /\ BackendCalls[1].api = "Documents.BatchDelete"
        /\ BackendCalls[1].arg.DatasetID = req.DatasetID
        /\ BackendCalls[1].arg.DocumentIDs = req.DocIDs
        /\ ret.err = BackendCalls[1].reply.err

C8_Witness ==
    /\ op = "DeleteRecords"
    /\ req.DocIDs = MkSlice(<<>>)
    /\ Len(BackendCalls) = 1
    /\ ~ret.err.isNil

\* C9: one invocation issues exactly one backend call (none only for an
\* UpsertRecords whose conversion failed); when the call fails the operation
\* returns a non-nil error with the backend's error as its cause and makes no
\* further call, and when it succeeds the operation returns a nil error.
ConversionFailedInTrace ==
    \E i \in 1..Len(trace) : IsConvertCall(trace[i]) /\ ~trace[i].reply.err.isNil

C9_OneRoundTrip ==
    op # "none" =>
        /\ Len(BackendCalls) = IF op = "UpsertRecords" /\ ConversionFailedInTrace THEN 0 ELSE 1
        /\ \A i \in 1..Len(BackendCalls) :
               IF BackendCalls[i].reply.err.isNil
               THEN ret.err.isNil
               ELSE /\ ~ret.err.isNil
                    /\ ErrorsIs(ret.err, BackendCalls[i].reply.err)
                    /\ i = Len(BackendCalls)

C9_Witness ==
    /\ op = "DeleteKnowledgeBase"
    /\ Len(BackendCalls) = 1
    /\ ~BackendCalls[1].reply.err.isNil
    /\ ret.err = BackendCalls[1].reply.err

\* C10: UpdateDocumentGroupIDs sends no group_ids metadata field when groupIDs
\* is nil, and sends group_ids equal to the list when it is non-nil (a
\* zero-length list included), for the given datasetID and docID.
C10_NilVersusEmpty ==
    op = "UpdateDocumentGroupIDs" =>
        /\ Len(BackendCalls) = 1
        /\ LET data == BackendCalls[1].arg IN
           /\ BackendCalls[1].api = "Documents.Update"
           /\ data.DatasetID = req.DatasetID
           /\ data.DocumentID = req.DocID
           /\ req.GroupIDs.isNil => ~HasGroupIDs(data)
           /\ ~req.GroupIDs.isNil =>
                  /\ HasGroupIDs(data)
                  /\ data.Metadata["group_ids"] = req.GroupIDs

C10_Witness ==
    /\ op = "UpdateDocumentGroupIDs"
    /\ req.GroupIDs = MkSlice(<<>>)
    /\ HasGroupIDs(BackendCalls[1].arg)
    /\ BackendCalls[1].arg.Metadata["group_ids"] = MkSlice(<<>>)
====
